---- MODULE Spec2Model ----
(***************************************************************************)
(* Model of src/main.py: the pagination loop fetch_all_posts and the       *)
(* record normaliser process_posts_for_excel, with the helper              *)
(* get_profile_name_from_url.                                              *)
(*                                                                         *)
(* Python text (messages, URLs, names, cursors) is modelled as a tuple of  *)
(* one-character strings, so that lower(), "in" and re.search are computed *)
(* as the code computes them.  Python's None is the tuple <<"None">>,      *)
(* which no text equals because every element of a text is one character. *)
(***************************************************************************)
EXTENDS Integers, Sequences, FiniteSets, TLC

VARIABLES
    max_pages,                  \* fetch_all_posts: parameter max_pages
    page_count,                 \* fetch_all_posts: local page_count
    all_posts_data,             \* fetch_all_posts: local all_posts_data
    current_pagination_token,   \* fetch_all_posts: local current_pagination_token
    pc,                         \* position in fetch_all_posts: "loop", "exit", "done"
    result,                     \* value returned by fetch_all_posts
    signals,                    \* st.warning / st.error / st.info calls of the last iteration
    history,                    \* observer: every request issued, with the response it got
    raw_posts_data,             \* process_posts_for_excel: parameter raw_posts_data
    queried_profile_url,        \* process_posts_for_excel: parameter queried_profile_url
    idx,                        \* process_posts_for_excel: entries of the for loop consumed
    processed_data,             \* process_posts_for_excel: local processed_data
    norm_warnings,              \* st.warning calls made by process_posts_for_excel
    npc                         \* position in process_posts_for_excel: "idle", "loop", "done"

vars == <<max_pages, page_count, all_posts_data, current_pagination_token, pc,
          result, signals, history, raw_posts_data, queried_profile_url, idx,
          processed_data, norm_warnings, npc>>

fetchVars == <<max_pages, page_count, all_posts_data, current_pagination_token,
               pc, result, signals, history>>

normVars == <<raw_posts_data, queried_profile_url, idx, processed_data,
              norm_warnings, npc>>

----------------------------------------------------------------------------
(* Bounds *)

MaxPages == 4    \* largest page limit explored (the UI allows 1..50)
MaxLen == 3      \* longest raw_posts_data handed to process_posts_for_excel

----------------------------------------------------------------------------
(* Python values and text primitives *)

None == <<"None">>

\* Python truthiness of an optional text or list: None, '' and [] are falsy.
Truthy(v) == v # None /\ v # <<>>

UpperAlpha == <<"A","B","C","D","E","F","G","H","I","J","K","L","M",
                "N","O","P","Q","R","S","T","U","V","W","X","Y","Z">>
LowerAlpha == <<"a","b","c","d","e","f","g","h","i","j","k","l","m",
                "n","o","p","q","r","s","t","u","v","w","x","y","z">>

LowerChar(c) ==
    IF \E i \in 1..26 : UpperAlpha[i] = c
    THEN LowerAlpha[CHOOSE i \in 1..26 : UpperAlpha[i] = c]
    ELSE c

\* str.lower()
Lower(s) == [i \in 1..Len(s) |-> LowerChar(s[i])]

\* sub in s
Contains(s, sub) ==
    \E i \in 1..(Len(s) - Len(sub) + 1) : SubSeq(s, i, i + Len(sub) - 1) = sub

----------------------------------------------------------------------------
(* The external API as the loop sees it *)

\* Status texts a decoded body can carry.
MsgOk == <<"o","k">>
MsgOkUpper == <<"O","K">>
MsgRateLimit == <<"R","a","t","e"," ","l","i","m","i","t">>
MsgNotFound == <<"P","r","o","f","i","l","e"," ","n","o","t"," ","f","o","u","n","d">>
MsgError == <<"e","r","r","o","r">>

\* json_response.get('message', 'Unknown error from API')
DefaultMessage == <<"U","n","k","n","o","w","n"," ","e","r","r","o","r"," ",
                    "f","r","o","m"," ","A","P","I">>

GetMessage(r) == IF r.message = None THEN DefaultMessage ELSE r.message

\* Raw post records, opaque to the fetch loop.
Posts == {"p1", "p2"}
Payloads == {<<>>, <<"p1">>, <<"p2">>, <<"p1", "p2">>}

\* Pagination cursors: absent, empty text, and two distinct tokens.
CursorA == <<"c","1">>
CursorB == <<"c","2">>
Tokens == {None, <<>>, CursorA, CursorB}

Failure(k) == [kind |-> k, message |-> None, data |-> None, token |-> None]
Json(m, d, t) == [kind |-> "json", message |-> m, data |-> d, token |-> t]

\* Outcomes of one requests.get + raise_for_status + response.json.
Responses ==
    {Failure("timeout"), Failure("transport"), Failure("decode")}
    \cup {Json(MsgOk, d, t) : d \in Payloads \cup {None}, t \in Tokens}
    \cup {Json(MsgOkUpper, <<"p1">>, CursorA), Json(MsgOkUpper, <<>>, None)}
    \cup {Json(m, d, None) : m \in {MsgRateLimit, MsgNotFound, MsgError, None},
                             d \in {None, <<"p1">>}}

\* api_message.lower() != "ok"
NotOk(r) == Lower(GetMessage(r)) # MsgOk

\* "rate limit" in api_message.lower()
RateLimitText == <<"r","a","t","e"," ","l","i","m","i","t">>
IsRateLimit(r) == Contains(Lower(GetMessage(r)), RateLimitText)

\* any(stop_msg in api_message.lower() for stop_msg in stop_messages)
stop_messages ==
    { <<"p","r","o","f","i","l","e"," ","n","o","t"," ","f","o","u","n","d">>,
      <<"p","r","o","f","i","l","e"," ","i","s"," ","p","r","i","v","a","t","e">>,
      <<"c","o","u","l","d"," ","n","o","t"," ","f","i","n","d"," ",
        "l","i","n","k","e","d","i","n"," ","p","r","o","f","i","l","e">>,
      <<"c","o","m","p","a","n","y"," ","n","o","t"," ","f","o","u","n","d">> }
IsStopMessage(r) == \E s \in stop_messages : Contains(Lower(GetMessage(r)), s)

\* json_response.get("data", [])
PostsOnPage(r) == IF r.data = None THEN <<>> ELSE r.data

Signal(level, text) == [level |-> level, text |-> text]

\* The responses by the branch of lines 71-96 that takes them.
DecodedResponses == {r \in Responses : r.kind = "json"}
RateLimitResponses == {r \in DecodedResponses : NotOk(r) /\ IsRateLimit(r)}
StopResponses ==
    {r \in DecodedResponses : NotOk(r) /\ ~IsRateLimit(r) /\ IsStopMessage(r)}
OtherStatusResponses ==
    {r \in DecodedResponses : NotOk(r) /\ ~IsRateLimit(r) /\ ~IsStopMessage(r)}
EmptyPageResponses ==
    {r \in DecodedResponses : ~NotOk(r) /\ ~Truthy(PostsOnPage(r))}
PageResponses ==
    {r \in DecodedResponses : ~NotOk(r) /\ Truthy(PostsOnPage(r))}

----------------------------------------------------------------------------
(* fetch_all_posts *)

\* while page_count < max_pages
\* (LoopCondOffByOne: the variant "while page_count <= max_pages")
LoopCondOffByOne(p, m) == p <= m
LoopCond(p, m) == p < m

\* if current_pagination_token: querystring["pagination_token"] = ...
\* The value is the cursor the request carries, None when it carries none.
\* (QuerystringNoToken: the variant that never adds the cursor)
QuerystringNoToken(tok) == None
Querystring(tok) == IF Truthy(tok) THEN tok ELSE None

\* if not current_pagination_token: break   (negated: the loop goes on)
\* (HasNextPageNotNone: the variant "if current_pagination_token is None: break")
HasNextPageNotNone(tok) == tok # None
HasNextPage(tok) == Truthy(tok)

\* all_posts_data.extend(posts_on_page)
\* (ExtendFront: the variant that puts the new page first)
ExtendFront(acc, posts) == posts \o acc
Extend(acc, posts) == acc \o posts

\* The observer keeps requests up to one past the page limit, which is
\* enough to see the limit exceeded.
Record(h, tok, r) ==
    IF Len(h) <= max_pages THEN Append(h, [token |-> tok, resp |-> r]) ELSE h

\* Loop head and the request: lines 44-59.
Attempt(r) ==
    /\ pc = "loop"
    /\ LoopCond(page_count, max_pages)
    /\ page_count' = page_count + 1
    /\ history' = Record(history, Querystring(current_pagination_token), r)
    /\ UNCHANGED <<max_pages, result>>
    /\ UNCHANGED normVars

Init ==
    /\ max_pages \in 1..MaxPages
    /\ page_count = 0
    /\ all_posts_data = <<>>
    /\ current_pagination_token = None
    /\ pc = "loop"
    /\ result = None
    /\ signals = <<>>
    /\ history = <<>>
    /\ raw_posts_data = <<>>
    /\ queried_profile_url = None
    /\ idx = 0
    /\ processed_data = <<>>
    /\ norm_warnings = 0
    /\ npc = "idle"

\* except requests.exceptions.Timeout: warning, sleep, continue
\* (FetchTimeoutSameIteration: the variant in which the retry does not advance
\* page_count)
FetchTimeoutSameIteration ==
    /\ pc = "loop"
    /\ LoopCond(page_count, max_pages)
    /\ history' = Record(history, Querystring(current_pagination_token),
                         Failure("timeout"))
    /\ signals' = <<Signal("warning", "timed_out")>>
    /\ UNCHANGED <<max_pages, result, page_count, pc, all_posts_data,
                   current_pagination_token>>
    /\ UNCHANGED normVars
FetchTimeout ==
    /\ Attempt(Failure("timeout"))
    /\ signals' = <<Signal("warning", "timed_out")>>
    /\ pc' = "loop"
    /\ UNCHANGED <<all_posts_data, current_pagination_token>>

\* except requests.exceptions.RequestException: error, break
\* (FetchRequestExceptionRetry: the variant that continues instead of breaking)
FetchRequestExceptionRetry ==
    /\ Attempt(Failure("transport"))
    /\ signals' = <<Signal("error", "request_error")>>
    /\ pc' = "loop"
    /\ UNCHANGED <<all_posts_data, current_pagination_token>>
FetchRequestException ==
    /\ Attempt(Failure("transport"))
    /\ signals' = <<Signal("error", "request_error")>>
    /\ pc' = "exit"
    /\ UNCHANGED <<all_posts_data, current_pagination_token>>

\* except ValueError: error, break
FetchDecodeError ==
    /\ Attempt(Failure("decode"))
    /\ signals' = <<Signal("error", "decode_error")>>
    /\ pc' = "exit"
    /\ UNCHANGED <<all_posts_data, current_pagination_token>>

\* message is not ok and mentions a rate limit: two warnings, sleep, continue
FetchRateLimit ==
    \E r \in RateLimitResponses :
        /\ Attempt(r)
        /\ signals' = <<Signal("warning", "api_alert"),
                        Signal("warning", "rate_limit")>>
        /\ pc' = "loop"
        /\ UNCHANGED <<all_posts_data, current_pagination_token>>

\* message is not ok and holds a stop message: warning, error, break
FetchStopMessage ==
    \E r \in StopResponses :
        /\ Attempt(r)
        /\ signals' = <<Signal("warning", "api_alert"),
                        Signal("error", "stopping")>>
        /\ pc' = "exit"
        /\ UNCHANGED <<all_posts_data, current_pagination_token>>

\* any other message that is not ok: break, with one more warning when it is
\* a later page without data
FetchOtherStatus ==
    \E r \in OtherStatusResponses :
        /\ Attempt(r)
        /\ signals' = IF page_count' > 1 /\ ~Truthy(r.data)
                      THEN <<Signal("warning", "api_alert"),
                             Signal("warning", "error_on_subsequent_page")>>
                      ELSE <<Signal("warning", "api_alert")>>
        /\ pc' = "exit"
        /\ UNCHANGED <<all_posts_data, current_pagination_token>>

\* ok with no posts on the page: info or first-page warning, break
FetchEmptyPage ==
    \E r \in EmptyPageResponses :
        /\ Attempt(r)
        /\ signals' = IF page_count' > 1 \/ Truthy(all_posts_data)
                      THEN <<Signal("info", "no_more_posts")>>
                      ELSE <<Signal("warning", "no_posts_first_page")>>
        /\ pc' = "exit"
        /\ UNCHANGED <<all_posts_data, current_pagination_token>>

\* ok with posts: extend, info, read the cursor; break when there is none
FetchPage ==
    \E r \in PageResponses :
        /\ Attempt(r)
        /\ all_posts_data' = Extend(all_posts_data, PostsOnPage(r))
        /\ current_pagination_token' = r.token
        /\ IF HasNextPage(r.token)
           THEN /\ signals' = <<Signal("info", "found_posts")>>
                /\ pc' = "loop"
           ELSE /\ signals' = <<Signal("info", "found_posts"),
                                Signal("info", "no_more_token")>>
                /\ pc' = "exit"

\* the while condition fails or a break was taken: return all_posts_data
FetchReturn ==
    /\ \/ pc = "exit"
       \/ pc = "loop" /\ ~LoopCond(page_count, max_pages)
    /\ pc' = "done"
    /\ result' = all_posts_data
    /\ UNCHANGED <<max_pages, page_count, all_posts_data,
                   current_pagination_token, signals, history>>
    /\ UNCHANGED normVars

Next ==
    \/ FetchTimeout
    \/ FetchRequestException
    \/ FetchDecodeError
    \/ FetchRateLimit
    \/ FetchStopMessage
    \/ FetchOtherStatus
    \/ FetchEmptyPage
    \/ FetchPage
    \/ FetchReturn

Spec == Init /\ [][Next]_vars

\* The loop is one sequential thread and every request returns or times out
\* (timeout=30), so a step that can be taken is taken.
FairSpec == Spec /\ WF_vars(Next)

----------------------------------------------------------------------------
(* get_profile_name_from_url *)

Slash == "/"
InMarker == <<"/","i","n","/">>
CompanyMarker == <<"/","c","o","m","p","a","n","y","/">>
CompanyWord == <<"c","o","m","p","a","n","y">>
UnknownProfile == <<"U","n","k","n","o","w","n","P","r","o","f","i","l","e">>
CompanyPage == <<"C","o","m","p","a","n","y"," ","P","a","g","e">>

\* Start positions of the group of re.search(marker + '([^/]+)', url): the
\* marker is there and at least one character other than "/" follows it.
GroupStarts(url, marker) ==
    {i + Len(marker) : i \in {j \in 1..(Len(url) - Len(marker)) :
        /\ SubSeq(url, j, j + Len(marker) - 1) = marker
        /\ url[j + Len(marker)] # Slash}}

MinOf(S) == CHOOSE x \in S : \A y \in S : x <= y

\* match.group(1) of the leftmost match: the longest run without "/".
Group(url, marker) ==
    LET a == MinOf(GroupStarts(url, marker))
        stops == {e \in a..Len(url) : e = Len(url) \/ url[e + 1] = Slash}
    IN  SubSeq(url, a, MinOf(stops))

get_profile_name_from_url(linkedin_url) ==
    IF ~Truthy(linkedin_url) THEN UnknownProfile
    ELSE IF GroupStarts(linkedin_url, InMarker) # {}
         THEN Group(linkedin_url, InMarker)
    ELSE IF GroupStarts(linkedin_url, CompanyMarker) # {}
         THEN Group(linkedin_url, CompanyMarker)
    ELSE UnknownProfile

----------------------------------------------------------------------------
(* process_posts_for_excel *)

Host == <<"h","t","t","p","s",":","/","/","w","w","w",".",
          "l","i","n","k","e","d","i","n",".","c","o","m">>
UrlProfile == Host \o <<"/","i","n","/","b","o","b">>
UrlCompany == Host \o <<"/","c","o","m","p","a","n","y","/","a","c","m","e","/">>
UrlProfileCompanyWord ==
    Host \o <<"/","i","n","/","c","o","m","p","a","n","y","-","g","u","y">>
UrlFeed == Host \o <<"/","f","e","e","d","/">>
UrlCompanySetup == Host \o <<"/","c","o","m","p","a","n","y","-","s","e","t","u","p">>
AuthorUrls == {None, UrlProfile, UrlCompany, UrlProfileCompanyWord, UrlFeed,
               UrlCompanySetup}

TextA == <<"t","1">>
TextB == <<"t","2">>
NameAl == <<"A","l">>
HeadlineCeo == <<"C","E","O">>

\* post.get("poster", {}) or {} : an absent or null poster reads as all None
Poster(first, last, headline) ==
    [first |-> first, last |-> last, headline |-> headline]
Posters == {Poster(None, None, None), Poster(NameAl, None, None),
            Poster(None, None, HeadlineCeo)}

\* One entry of raw_posts_data that is a dict, by the keys the record reads.
Post(text, poster, url, reshared) ==
    [type |-> "dict", text |-> text, poster |-> poster,
     poster_linkedin_url |-> url, reshared |-> reshared]

\* An entry that is not a dict: a str, or None.
NonMapping(t) ==
    [type |-> t, text |-> None, poster |-> Poster(None, None, None),
     poster_linkedin_url |-> None, reshared |-> FALSE]

RawEntries ==
    {NonMapping("str"), NonMapping("NoneType")}
    \cup {Post(TextA, p, u, FALSE) : p \in Posters, u \in AuthorUrls}
    \cup {Post(TextB, Poster(None, None, None), None, FALSE),
          Post(TextA, Poster(None, None, None), UrlProfile, TRUE)}

RECURSIVE SeqsUpTo(_, _)
SeqsUpTo(S, n) ==
    IF n = 0 THEN {<<>>}
    ELSE LET shorter == SeqsUpTo(S, n - 1)
         IN  shorter \cup {Append(q, x) : q \in {t \in shorter : Len(t) = n - 1},
                                          x \in S}

\* isinstance(post, dict)
IsDict(post) == post.type = "dict"

\* v or d
Or(v, d) == IF Truthy(v) THEN v ELSE d

\* Lines 133-150 and 163-196, for the fields post type, author name, author
\* headline and text; the other fields are copies of single keys of the post.
FlatRecord(post, queried_profile_name) ==
    LET author_first_name == post.poster.first
        author_last_name == post.poster.last
        author_headline == post.poster.headline
        author_linkedin_url == post.poster_linkedin_url
        fallback == /\ ~(Truthy(author_first_name) \/ Truthy(author_last_name))
                    /\ Truthy(author_linkedin_url)
        from_url == get_profile_name_from_url(author_linkedin_url)
        first == IF fallback /\ from_url # UnknownProfile
                 THEN from_url ELSE author_first_name
        headline == IF /\ fallback
                       /\ ~Truthy(author_headline)
                       /\ Contains(Or(author_linkedin_url, <<>>), CompanyWord)
                    THEN CompanyPage ELSE author_headline
    IN  [post_type |-> IF post.reshared
                       THEN <<"R","e","s","h","a","r","e"," ","b","y"," ">>
                            \o queried_profile_name
                       ELSE <<"O","r","i","g","i","n","a","l"," ","P","o","s","t">>,
         author_name |-> Or(first, <<>>) \o <<" ">> \o Or(author_last_name, <<>>),
         author_headline |-> headline,
         text |-> post.text]

NormInit ==
    /\ max_pages = 1
    /\ page_count = 0
    /\ all_posts_data = <<>>
    /\ current_pagination_token = None
    /\ pc = "done"
    /\ result = None
    /\ signals = <<>>
    /\ history = <<>>
    /\ raw_posts_data \in SeqsUpTo(RawEntries, MaxLen)
    /\ queried_profile_url \in {UrlProfile, UrlCompany}
    /\ idx = 0
    /\ processed_data = <<>>
    /\ norm_warnings = 0
    /\ npc = "loop"

\* not isinstance(post, dict): warning, continue
\* (NormSkipAbort: the variant that breaks instead of continuing)
NormSkipAbort ==
    /\ npc = "loop"
    /\ idx < Len(raw_posts_data)
    /\ ~IsDict(raw_posts_data[idx + 1])
    /\ norm_warnings' = norm_warnings + 1
    /\ npc' = "done"
    /\ UNCHANGED <<raw_posts_data, queried_profile_url, processed_data, idx>>
    /\ UNCHANGED fetchVars
NormSkip ==
    /\ npc = "loop"
    /\ idx < Len(raw_posts_data)
    /\ ~IsDict(raw_posts_data[idx + 1])
    /\ norm_warnings' = norm_warnings + 1
    /\ idx' = idx + 1
    /\ UNCHANGED <<raw_posts_data, queried_profile_url, processed_data, npc>>
    /\ UNCHANGED fetchVars

\* a dict: build the record and append it
NormRecord ==
    /\ npc = "loop"
    /\ idx < Len(raw_posts_data)
    /\ IsDict(raw_posts_data[idx + 1])
    /\ processed_data' =
           Append(processed_data,
                  FlatRecord(raw_posts_data[idx + 1],
                             get_profile_name_from_url(queried_profile_url)))
    /\ idx' = idx + 1
    /\ UNCHANGED <<raw_posts_data, queried_profile_url, norm_warnings, npc>>
    /\ UNCHANGED fetchVars

\* the for loop is exhausted: return processed_data
NormReturn ==
    /\ npc = "loop"
    /\ idx = Len(raw_posts_data)
    /\ npc' = "done"
    /\ UNCHANGED <<raw_posts_data, queried_profile_url, processed_data,
                   norm_warnings, idx>>
    /\ UNCHANGED fetchVars

NormNext ==
    \/ NormSkip
    \/ NormRecord
    \/ NormReturn

NormSpec == NormInit /\ [][NormNext]_vars

----------------------------------------------------------------------------
(* Observations on the request history *)

Last(h) == h[Len(h)]

\* A timeout, or a decoded body whose status signals a rate limit.
TransientOutcomes ==
    {r \in Responses : \/ r.kind = "timeout"
                       \/ r.kind = "json" /\ IsRateLimit(r) /\ NotOk(r)}
IsTransient(r) == r \in TransientOutcomes

\* A transport error other than a timeout, or a body that does not decode.
IsFatal(r) == r.kind \in {"transport", "decode"}

OkOutcomes == {r \in Responses : r.kind = "json" /\ Lower(GetMessage(r)) = MsgOk}
IsOk(r) == r \in OkOutcomes
IsOkData(r) == IsOk(r) /\ r.data # None /\ Len(r.data) > 0
IsOkEmpty(r) == IsOk(r) /\ (r.data = None \/ Len(r.data) = 0)
HasCursor(r) == r.token # None /\ Len(r.token) > 0

\* Concatenation of the payloads of the ok, non-empty responses, in order.
RECURSIVE Delivered(_)
Delivered(h) ==
    IF Len(h) = 0 THEN <<>>
    ELSE Delivered(SubSeq(h, 1, Len(h) - 1))
         \o (IF IsOkData(Last(h).resp) THEN Last(h).resp.data ELSE <<>>)

\* Positions of the ok, non-empty responses among the first n requests.
PagesBefore(n) == {k \in 1..n : k <= Len(history) /\ IsOkData(history[k].resp)}

MaxOf(S) == CHOOSE x \in S : \A y \in S : y <= x

IsSuffix(t, s) == Len(t) <= Len(s) /\ SubSeq(s, Len(s) - Len(t) + 1, Len(s)) = t

----------------------------------------------------------------------------
(* Claims about fetch_all_posts *)

\* C1: one invocation never issues more than max_pages HTTP requests,
\* whatever the outcomes are.
C1_RequestsWithinLimit == Len(history) <= max_pages

\* C1 witness: the invocation has returned after using the whole limit of
\* at least two pages.
C1_Witness == pc = "done" /\ max_pages >= 2 /\ Len(history) = max_pages

\* C2 (as claimed): a transient failure does not consume a page-limit slot:
\* once a non-transient response has been handled the page counter equals
\* the number of non-transient attempts, and the invocation never returns
\* straight after a transient failure, because that attempt is retried.
C2_TransientKeepsSlot ==
    /\ (Len(history) > 0 /\ ~IsTransient(Last(history).resp))
          => page_count = Cardinality({k \in 1..Len(history) :
                                          ~IsTransient(history[k].resp)})
    /\ (pc = "done" /\ Len(history) > 0) => ~IsTransient(Last(history).resp)

\* Every request carries the cursor of the latest ok, non-empty page received
\* before it, and no cursor when there is none.
CursorCarried ==
    \A k \in 1..Len(history) :
        history[k].token =
            IF PagesBefore(k - 1) = {} THEN None
            ELSE history[MaxOf(PagesBefore(k - 1))].resp.token

\* C3 (as claimed): after an ok response with data and a cursor a next
\* request is always issued, so the invocation never returns straight after
\* such a response, and every request carries the cursor of the page before.
C3_AlwaysNextRequest ==
    /\ CursorCarried
    /\ (pc = "done" /\ Len(history) > 0)
          => ~(IsOkData(Last(history).resp) /\ HasCursor(Last(history).resp))

\* C3 (amended): every request, retries included, carries exactly the cursor
\* of the latest ok, non-empty page (none before the first such page); after
\* an ok response with data and a cursor the loop goes on to a next request
\* while the page counter is below the page limit, and the invocation returns
\* straight after such a response only when the counter has reached the limit.
C3_NextRequestWithinLimit ==
    /\ CursorCarried
    /\ (Len(history) > 0
        /\ IsOkData(Last(history).resp) /\ HasCursor(Last(history).resp))
          => IF page_count < max_pages
             THEN pc = "loop" /\ ~ENABLED FetchReturn /\ ENABLED FetchTimeout
             ELSE page_count = max_pages /\ pc \in {"loop", "done"}

\* C3 witness: a page with a cursor, then a timed-out request and its retry,
\* both carrying that cursor.
C3_Witness ==
    /\ Len(history) = 3
    /\ IsOkData(history[1].resp) /\ history[1].resp.token = CursorB
    /\ history[2].resp.kind = "timeout" /\ history[2].token = CursorB
    /\ history[3].token = CursorB

\* C4: an ok response with data and no cursor (absent or empty) is the last
\* request of the invocation, and its records end the accumulator.
C4_StopsWithoutCursor ==
    \A k \in 1..Len(history) :
        (IsOkData(history[k].resp) /\ ~HasCursor(history[k].resp))
            => /\ k = Len(history)
               /\ pc \in {"exit", "done"}
               /\ IsSuffix(history[k].resp.data, all_posts_data)

\* C4 witness: returned after a second page that has an empty cursor, with
\* page limit left.
C4_Witness ==
    /\ pc = "done" /\ Len(history) = 2 /\ page_count < max_pages
    /\ IsOkData(history[2].resp) /\ history[2].resp.token = <<>>
    /\ Len(all_posts_data) > Len(history[2].resp.data)

\* C5: a transport error other than a timeout, or a decode failure, ends the
\* loop in that step with an error signal and the accumulator untouched; once
\* the loop has ended no request follows and the accumulator is returned.
C5_FatalEndsLoop ==
    [][ /\ (history' # history /\ IsFatal(Last(history').resp))
            => /\ pc' = "exit"
               /\ all_posts_data' = all_posts_data
               /\ \E i \in 1..Len(signals') : signals'[i].level = "error"
        /\ (pc = "exit")
            => /\ pc' = "done"
               /\ history' = history
               /\ result' = all_posts_data ]_vars

\* C5 witness: returned the records of an earlier page after a fatal failure,
\* with page limit left.
C5_Witness ==
    /\ pc = "done" /\ Len(history) = 2 /\ page_count < max_pages
    /\ IsFatal(history[2].resp)
    /\ Len(result) > 0

\* C6: the accumulator is always the concatenation, in order, of the payloads
\* of the ok, non-empty responses received, and it is the value returned.
C6_ResultIsConcatenation ==
    /\ all_posts_data = Delivered(history)
    /\ pc = "done" => result = all_posts_data

\* C6 witness: two different pages around a rate-limit response that carried
\* data of its own.
C6_Witness ==
    /\ pc = "done" /\ Len(history) = 3
    /\ IsOkData(history[1].resp)
    /\ IsTransient(history[2].resp) /\ history[2].resp.data # None
    /\ IsOkData(history[3].resp)
    /\ history[1].resp.data # history[3].resp.data
    /\ result = history[1].resp.data \o history[3].resp.data

\* C9 (as claimed): an empty ok page received before any page was fetched
\* successfully raises the first-page warning, and the informational note is
\* raised only after at least one successfully fetched page.
C9_FirstPageWarning ==
    (Len(history) > 0 /\ IsOkEmpty(Last(history).resp))
        => signals = IF PagesBefore(Len(history)) = {}
                     THEN <<Signal("warning", "no_posts_first_page")>>
                     ELSE <<Signal("info", "no_more_posts")>>

\* C10: every invocation terminates: each iteration, retried or not, adds one
\* to the page counter, which never passes the page limit, and the function
\* eventually returns.
C10_Terminates ==
    /\ <>(pc = "done")
    /\ [][history' # history
            => page_count' = page_count + 1 /\ page_count' <= max_pages]_vars

\* C10 witness: returned after nothing but transient failures used up a page
\* limit of at least two.
C10_Witness ==
    /\ pc = "done" /\ max_pages >= 2 /\ Len(history) = max_pages
    /\ \A k \in 1..Len(history) : IsTransient(history[k].resp)

----------------------------------------------------------------------------
(* Claims about process_posts_for_excel *)

\* The entries consumed so far that are mappings, in input order.
MappingsSeen == SelectSeq(SubSeq(raw_posts_data, 1, idx), LAMBDA e : e.type = "dict")

MarksCompanyPage(url) ==
    /\ GroupStarts(url, InMarker) = {}
    /\ GroupStarts(url, CompanyMarker) # {}

\* C8 (as claimed): for a record without first and last name and with an
\* author URL, the author name falls back to the name derived from the URL,
\* and the headline is "Company Page" exactly when none was supplied and the
\* URL marks a company page; a profile URL, or one no name can be derived
\* from, never yields it.
C8_CompanyHeadlineOnlyForCompany ==
    (idx > 0 /\ raw_posts_data[idx].type = "dict")
        => LET post == raw_posts_data[idx]
               rec == processed_data[Len(processed_data)]
               url == post.poster_linkedin_url
           IN  (post.poster.first = None /\ post.poster.last = None /\ url # None)
                   => /\ get_profile_name_from_url(url) # UnknownProfile
                          => rec.author_name
                                 = get_profile_name_from_url(url) \o <<" ">>
                      /\ rec.author_headline = CompanyPage
                          <=> (post.poster.headline = None /\ MarksCompanyPage(url))

====
